---- MODULE Spec2Model ----
(***************************************************************************)
(* A model of the SNMP v2c manager core of snmp-collector (src/src/snmp.rs)*)
(* and of the object-identifier text handling its HTTP front end relies on *)
(* (src/src/http_api.rs).                                                  *)
(*                                                                         *)
(*   Spec      one get / get_bulk call at a time against an arbitrary      *)
(*             agent: bind, build + encode + send, receive + decode +      *)
(*             convert, return.                                            *)
(*   FairSpec  Spec plus weak fairness of the steps the call itself takes. *)
(*   SpecOid   the pure functions on object identifiers (from_str, the     *)
(*             Display rendering, starts_with) applied to bounded inputs.  *)
(***************************************************************************)
EXTENDS Integers, Sequences, FiniteSets, TLC

VARIABLES
  pc,          \* position of the call: idle, bind, send, recv, done
  op,          \* "none", "get" or "get_bulk"
  oids,        \* the identifiers given by the caller (get_bulk: the one root)
  socket,      \* TRUE while the call's UdpSocket exists
  message,     \* the request message built by the call
  wire,        \* the datagrams the call has sent to the target, in order
  inbox,       \* the datagram waiting in the call's socket, if any
  response,    \* the decoded response message
  result,      \* what the call returned to its caller
  buffer,      \* response_buffer: its size, what recv_from put in it, what was decoded
  events,      \* history: the socket and codec operations of the call, in order
  text,        \* SpecOid: the text handed to from_str
  parsed,      \* SpecOid: what from_str made of text
  rendered,    \* SpecOid: the Display rendering of the parsed identifier
  selfOid,     \* SpecOid: the receiver of starts_with
  prefixOid,   \* SpecOid: the argument of starts_with
  answer,      \* SpecOid: what starts_with returned
  ostep,       \* SpecOid: which function has been applied ("off" elsewhere)
  wval,        \* SpecConv: the wire value handed to convert
  oval,        \* SpecConv: the ObjectValue convert returned
  json,        \* SpecConv: what Serialize for ObjectValue made of oval
  vstep,       \* SpecConv: which function has been applied ("off" elsewhere)
  calls,       \* SpecConc: the state of each concurrent call
  open,        \* SpecConc: the local ports that have an open socket
  sockbuf      \* SpecConc: the datagram waiting at each local port, if any

xvars == <<pc, op, oids, socket, message, wire, inbox, response, result,
          buffer, events>>
ovars == <<text, parsed, rendered, selfOid, prefixOid, answer, ostep>>
cvvars == <<wval, oval, json, vstep>>
ccvars == <<calls, open, sockbuf>>
othervars == <<ovars, cvvars, ccvars>>
vars == <<pc, op, oids, socket, message, wire, inbox, response, result,
          buffer, events,
          text, parsed, rendered, selfOid, prefixOid, answer, ostep,
          wval, oval, json, vstep, calls, open, sockbuf>>

(***************************************************************************)
(* Bounds of the model.                                                    *)
(***************************************************************************)
MaxTextLen == 4      \* longest enumerated identifier text, in characters
MaxOidLen == 3       \* longest identifier given to starts_with
MaxOids == 2         \* most identifiers in one get call
MaxBindings == 3     \* most variable bindings in one reply
MaxCalls == 2        \* most calls in progress at once (SpecConc)
MaxBytes == 2        \* longest OctetString / Opaque payload (SpecConv)

(***************************************************************************)
(* Sequences up to a length.                                               *)
(***************************************************************************)
SeqsUpTo(S, n) == UNION {[1..k -> S] : k \in 0..n}

(***************************************************************************)
(* Object identifiers: snmp.rs, ObjectIdentifier.  An identifier is the    *)
(* sequence of its u32 sub-identifiers.                                    *)
(***************************************************************************)

\* mutant of starts_with: the last sub-identifier of the prefix is not compared
starts_with_short(self, prefix) ==
  /\ Len(self) >= Len(prefix)
  /\ \A i \in 1..(Len(prefix) - 1) : self[i] = prefix[i]

\* ObjectIdentifier::starts_with: the slice test of the sub-identifiers,
\* self.len() >= n && prefix == self[..n]
starts_with(self, prefix) ==
  /\ Len(self) >= Len(prefix)
  /\ SubSeq(self, 1, Len(prefix)) = prefix

(***************************************************************************)
(* Text.  A text is a sequence of one-character strings.                   *)
(***************************************************************************)
Digits == {"0", "1", "2", "3", "4", "5", "6", "7", "8", "9"}

DigitVal(c) ==
  CASE c = "0" -> 0 [] c = "1" -> 1 [] c = "2" -> 2 [] c = "3" -> 3
    [] c = "4" -> 4 [] c = "5" -> 5 [] c = "6" -> 6 [] c = "7" -> 7
    [] c = "8" -> 8 [] c = "9" -> 9

DigitChar(d) ==
  CASE d = 0 -> "0" [] d = 1 -> "1" [] d = 2 -> "2" [] d = 3 -> "3"
    [] d = 4 -> "4" [] d = 5 -> "5" [] d = 6 -> "6" [] d = 7 -> "7"
    [] d = 8 -> "8" [] d = 9 -> "9"

\* u32::MAX = 4294967295, digit by digit (it does not fit the checker's integers)
U32MaxDigits == <<4, 2, 9, 4, 9, 6, 7, 2, 9, 5>>

RECURSIVE StripZeros(_)
StripZeros(ds) ==
  IF Len(ds) > 1 /\ Head(ds) = "0" THEN StripZeros(Tail(ds)) ELSE ds

RECURSIVE LexGreater(_, _)
\* ds, a digit text as long as ms, denotes a larger number than the digits ms
LexGreater(ds, ms) ==
  IF ds = <<>> THEN FALSE
  ELSE IF DigitVal(Head(ds)) # Head(ms) THEN DigitVal(Head(ds)) > Head(ms)
  ELSE LexGreater(Tail(ds), Tail(ms))

\* the digits denote a number above u32::MAX (checked_mul / checked_add fail)
OverflowsU32(ds) ==
  LET c == StripZeros(ds) IN
    \/ Len(c) > Len(U32MaxDigits)
    \/ Len(c) = Len(U32MaxDigits) /\ LexGreater(c, U32MaxDigits)

RECURSIVE DigitsValue(_, _)
DigitsValue(ds, acc) ==
  IF ds = <<>> THEN acc ELSE DigitsValue(Tail(ds), acc * 10 + DigitVal(Head(ds)))

\* str::parse::<u32>: an optional leading "+", then one or more decimal digits,
\* the number at most u32::MAX; anything else is Err
parse_u32(segment) ==
  LET digits == IF Len(segment) > 1 /\ Head(segment) = "+"
                THEN Tail(segment) ELSE segment
      good == /\ digits # <<>>
              /\ \A i \in 1..Len(digits) : digits[i] \in Digits
  IN IF good /\ ~OverflowsU32(digits)
     THEN [ok |-> TRUE, value |-> DigitsValue(digits, 0)]
     ELSE [ok |-> FALSE, value |-> 0]

RECURSIVE split(_, _)
\* str::split("."): the segments between the dots; always at least one segment
split(s, cur) ==
  IF s = <<>> THEN <<cur>>
  ELSE IF Head(s) = "." THEN <<cur>> \o split(Tail(s), <<>>)
  ELSE split(Tail(s), Append(cur, Head(s)))

\* ObjectIdentifier::from_str: every segment is parsed and unwrapped, so a bad
\* segment panics; the function has no Err return
from_str(s) ==
  LET segs == split(s, <<>>)
      nums == [i \in 1..Len(segs) |-> parse_u32(segs[i])]
  IN IF \E i \in 1..Len(segs) : ~nums[i].ok
     THEN [kind |-> "Panic", oid |-> <<>>]
     ELSE [kind |-> "Ok", oid |-> [i \in 1..Len(segs) |-> nums[i].value]]

RECURSIVE u32_to_string(_)
\* the decimal text of a u32, as write!(f, "{}", segment) prints it
u32_to_string(n) ==
  IF n < 10 THEN <<DigitChar(n)>>
  ELSE u32_to_string(n \div 10) \o <<DigitChar(n % 10)>>

RECURSIVE fmt(_)
\* Display for ObjectIdentifier: the segments in order, "." before all but the first
fmt(oid) ==
  IF oid = <<>> THEN <<>>
  ELSE IF Len(oid) = 1 THEN u32_to_string(oid[1])
  ELSE fmt(SubSeq(oid, 1, Len(oid) - 1)) \o <<".">> \o u32_to_string(oid[Len(oid)])

(***************************************************************************)
(* Object values: snmp.rs, ObjectValue and convert.  A wire value is a     *)
(* VarBindValue: a value of one of the SMI syntaxes, or one of the four    *)
(* markers, which carry no payload.                                        *)
(***************************************************************************)
Markers == {"Unspecified", "NoSuchObject", "NoSuchInstance", "EndOfMibView"}

WireValue(class, syntax, payload) ==
  [kind |-> "Value", class |-> class, syntax |-> syntax, payload |-> payload]

Marker(m) == [kind |-> m, class |-> "None", syntax |-> "None", payload |-> 0]

Unspecified == Marker("Unspecified")

ObjectValue(tag, payload) == [tag |-> tag, payload |-> payload]

\* the todo!() of convert's four marker arms: the thread panics
Todo == [tag |-> "todo!", payload |-> 0]

\* convert: one arm per syntax, the payload carried over; todo!() for a marker
convert(value) ==
  IF value.kind # "Value" THEN Todo
  ELSE CASE value.syntax = "Integer" -> ObjectValue("Integer", value.payload)
         [] value.syntax = "String" -> ObjectValue("OctetString", value.payload)
         [] value.syntax = "ObjectId" -> ObjectValue("ObjectIdentifier", value.payload)
         [] value.syntax = "Address" ->
              LET o == value.payload
              IN ObjectValue("IpAddress", <<o[1], o[2], o[3], o[4]>>)
         [] value.syntax = "Counter" -> ObjectValue("Counter32", value.payload)
         [] value.syntax = "Ticks" -> ObjectValue("TimeTicks", value.payload)
         [] value.syntax = "Arbitrary" -> ObjectValue("Opaque", value.payload)
         [] value.syntax = "BigCounter" -> ObjectValue("Counter64", value.payload)
         [] value.syntax = "Unsigned" -> ObjectValue("Unsigned32", value.payload)

VarBind(name, value) == [name |-> name, value |-> value]

VariableBinding(object_id, value) == [object_id |-> object_id, value |-> value]

(***************************************************************************)
(* Messages.  A request is the v2c message the call builds; a datagram in  *)
(* the socket either decodes to a Response message or does not decode.     *)
(***************************************************************************)
NoMessage ==
  [pdu |-> "None", request_id |-> 0, error_status |-> 0, error_index |-> 0,
   non_repeaters |-> 0, max_repetitions |-> 0, variable_bindings |-> <<>>]

\* get, lines 106-124: GetRequest, request_id 1, one VarBind per oid, Unspecified
GetRequest(l) ==
  [pdu |-> "GetRequest", request_id |-> 1, error_status |-> 0, error_index |-> 0,
   non_repeaters |-> 0, max_repetitions |-> 0,
   variable_bindings |-> [i \in 1..Len(l) |-> VarBind(l[i], Unspecified)]]

\* get_bulk, lines 155-173: GetBulkRequest, request_id 1, non_repeaters 0,
\* max_repetitions 20, the one VarBind of the root
GetBulkRequest(oid) ==
  [pdu |-> "GetBulkRequest", request_id |-> 1, error_status |-> 0, error_index |-> 0,
   non_repeaters |-> 0, max_repetitions |-> 20,
   variable_bindings |-> <<VarBind(oid, Unspecified)>>]

\* a datagram: len bytes, of which the first body_len are the BER message (the
\* rest is padding); decodes says whether those body_len bytes are a Response.
\* A reply of a few short bindings is about a hundred bytes long.
Response(id, status, index, bindings) ==
  [decodes |-> TRUE, request_id |-> id, error_status |-> status,
   error_index |-> index, variable_bindings |-> bindings,
   body_len |-> 100, len |-> 100]

\* the datagram d with a message of body_len bytes in len bytes
Sized(d, body_len, len) == [d EXCEPT !.body_len = body_len, !.len = len]

\* a datagram rasn::ber::decode rejects
Garbage ==
  [decodes |-> FALSE, request_id |-> 0, error_status |-> 0,
   error_index |-> 0, variable_bindings |-> <<>>,
   body_len |-> 100, len |-> 100]

\* let mut response_buffer = [0; 1024] (get), [0; 2048] (get_bulk)
GetBufferSize == 1024
GetBulkBufferSize == 2048

Min(a, b) == IF a < b THEN a ELSE b

NoBuffer ==
  [size |-> 0, datagram_len |-> 0, byte_count |-> 0, decoded |-> 0, read |-> 0]

\* recv_from into a buffer of size bytes: the datagram's first size bytes are kept
\* and counted (byte_count), the rest is discarded; decode is then given the
\* whole buffer (&response_buffer), not its first byte_count bytes, and reads as
\* far as the message's own length says
Received(d, size) ==
  [size |-> size, datagram_len |-> d.len, byte_count |-> Min(d.len, size),
   decoded |-> size, read |-> Min(d.body_len, size)]

\* rasn::ber::decode of the buffer: the message must be well-formed (the zeros
\* the buffer holds after the received bytes read as part of it, if its length
\* reaches there) and wholly inside the buffer; bytes after it are not looked at
DecodesIn(d, size) == d.decodes /\ d.body_len <= size

NoResponse == Garbage

(***************************************************************************)
(* Results of a call.                                                      *)
(***************************************************************************)
NoResult == [kind |-> "None", error |-> "None", bindings |-> <<>>]
Ok(bindings) == [kind |-> "Ok", error |-> "None", bindings |-> bindings]
Err(e) == [kind |-> "Err", error |-> e, bindings |-> <<>>]
Panic == [kind |-> "Panic", error |-> "None", bindings |-> <<>>]

RECURSIVE SelectSeq2(_, _)
\* Iterator::filter on a sequence, the root as the filter's argument
SelectSeq2(s, root) ==
  IF s = <<>> THEN <<>>
  ELSE IF starts_with(Head(s).object_id, root)
       THEN <<Head(s)>> \o SelectSeq2(Tail(s), root)
       ELSE SelectSeq2(Tail(s), root)

\* the bindings of a response, each converted: the map of lines 139-143 / 191-195
Converted(bindings) ==
  [i \in 1..Len(bindings) |->
     VariableBinding(bindings[i].name, convert(bindings[i].value))]

Panics(bindings) == \E i \in 1..Len(bindings) : convert(bindings[i].value) = Todo

\* mutant of get_collect: the last binding of the response is dropped
get_collect_drop(resp) ==
  IF Panics(resp.variable_bindings) THEN Panic
  ELSE Ok(SubSeq(Converted(resp.variable_bindings), 1,
                 Len(resp.variable_bindings) - 1))

\* get, lines 138-145: every binding of the response, converted, in order
get_collect(resp) ==
  IF Panics(resp.variable_bindings) THEN Panic
  ELSE Ok(Converted(resp.variable_bindings))

\* mutant of get_bulk_collect: no filter
get_bulk_collect_all(resp, root) ==
  IF Panics(resp.variable_bindings) THEN Panic
  ELSE Ok(Converted(resp.variable_bindings))

\* get_bulk, lines 190-198: every binding converted (the map runs before the
\* filter, so a marker panics wherever its binding lies), then those under the root
get_bulk_collect(resp, root) ==
  IF Panics(resp.variable_bindings) THEN Panic
  ELSE Ok(SelectSeq2(Converted(resp.variable_bindings), root))

(***************************************************************************)
(* The inputs of the model: what a caller may ask and an agent may answer. *)
(***************************************************************************)
RequestOids == {<<1, 3, 1>>, <<1, 4>>}
Roots == {<<1, 3>>, <<1, 3, 1>>, <<1, 3, 1, 0>>}
ReplyOids == {<<1, 3, 1>>, <<1, 4>>}
\* the markers an agent answers with (convert's four marker arms are all
\* applied under SpecConv)
ReplyMarkers == {"NoSuchInstance", "EndOfMibView"}
ReplyValues ==
  {WireValue("Simple", "Integer", 5), WireValue("ApplicationWide", "Counter", 7)}
    \cup {Marker(m) : m \in ReplyMarkers}
ReplyBindings == {VarBind(n, v) : n \in ReplyOids, v \in ReplyValues}
RequestIds == {1, 2}
\* (error-status, error-index): noError, or noSuchName at the first binding
ErrorPairs == {<<0, 0>>, <<2, 1>>}
\* replies beyond a receive buffer: a reply of 1500 or 3000 bytes, and a short
\* reply padded to 3000 bytes; and a reply cut short on its way, whose message
\* says 200 bytes of which 100 arrive
LargeDatagrams ==
  LET body == Response(1, 0, 0, <<VarBind(<<1, 3, 1>>, WireValue("Simple", "Integer", 5))>>)
  IN {Sized(body, 1500, 1500), Sized(body, 3000, 3000), Sized(body, 100, 3000),
      Sized(body, 200, 100)}
Datagrams ==
  {Garbage} \cup LargeDatagrams \cup
  {Response(id, e[1], e[2], b) :
     id \in RequestIds, e \in ErrorPairs, b \in SeqsUpTo(ReplyBindings, MaxBindings)}

\* the request a call builds: lines 106-124 (get), 155-173 (get_bulk)
BuildMessageOf(o, l) == IF o = "get" THEN GetRequest(l) ELSE GetBulkRequest(l[1])

BuildMessage == BuildMessageOf(op, oids)

\* the receive buffer of the call: line 130 (get), line 180 (get_bulk)
BufferSizeOf(o) == IF o = "get" THEN GetBufferSize ELSE GetBulkBufferSize

BufferSize == BufferSizeOf(op)

\* the Ok(...) expression that ends a call: lines 138-145 (get), 190-198 (get_bulk)
CollectOf(o, l, resp) ==
  IF o = "get" THEN get_collect(resp) ELSE get_bulk_collect(resp, l[1])

Collect(resp) == CollectOf(op, oids, resp)

\* the future was dropped by its caller before it completed
Cancelled == [kind |-> "Cancelled", error |-> "None", bindings |-> <<>>]

(***************************************************************************)
(* The state after construction: no call in progress.                      *)
(***************************************************************************)
Calls == 1..MaxCalls

\* as many ephemeral ports as there may be calls
Ports == 1..MaxCalls

\* a call that has not begun: no socket (port 0), nothing sent, nothing
\* delivered to its socket, nothing consumed from it
IdleCall ==
  [pc |-> "idle", op |-> "none", oids |-> <<>>, port |-> 0, opened |-> 0,
   message |-> NoMessage, delivered |-> <<>>, got |-> <<>>, result |-> NoResult,
   events |-> <<>>]

ConcIdle ==
  /\ calls = [c \in Calls |-> IdleCall]
  /\ open = {}
  /\ sockbuf = [p \in Ports |-> <<>>]

NoValue == [tag |-> "None", payload |-> 0]
NoJson == [kind |-> "None", fields |-> <<>>]

ConvIdle ==
  /\ wval = Unspecified
  /\ oval = NoValue
  /\ json = NoJson
  /\ vstep = "off"

OidIdle ==
  /\ text = <<>>
  /\ parsed = [kind |-> "None", oid |-> <<>>]
  /\ rendered = <<>>
  /\ selfOid = <<>>
  /\ prefixOid = <<>>
  /\ answer = FALSE

XIdle ==
  /\ pc = "idle"
  /\ op = "none"
  /\ oids = <<>>
  /\ socket = FALSE
  /\ message = NoMessage
  /\ wire = <<>>
  /\ inbox = <<>>
  /\ response = NoResponse
  /\ result = NoResult
  /\ buffer = NoBuffer
  /\ events = <<>>

Init == XIdle /\ OidIdle /\ ostep = "off" /\ ConvIdle /\ ConcIdle

(***************************************************************************)
(* The caller: handle_snmp_request calls get or get_bulk.                  *)
(***************************************************************************)
CallGet(l) ==
  /\ pc = "idle"
  /\ pc' = "bind"
  /\ op' = "get"
  /\ oids' = l
  /\ UNCHANGED <<socket, message, wire, inbox, response, result, buffer, events>>
  /\ UNCHANGED othervars

CallGetBulk(oid) ==
  /\ pc = "idle"
  /\ pc' = "bind"
  /\ op' = "get_bulk"
  /\ oids' = <<oid>>
  /\ UNCHANGED <<socket, message, wire, inbox, response, result, buffer, events>>
  /\ UNCHANGED othervars

\* the call has ended: the caller has the result, the socket is dropped
Finish(r) ==
  /\ pc' = "done"
  /\ result' = r
  /\ socket' = FALSE
  /\ inbox' = <<>>

(***************************************************************************)
(* UdpSocket::bind("[::]:0").await, lines 103-105 / 152-154.               *)
(***************************************************************************)
BindOk ==
  /\ pc = "bind"
  /\ socket' = TRUE
  /\ pc' = "send"
  /\ events' = Append(events, "bind")
  /\ UNCHANGED <<op, oids, message, wire, inbox, response, result, buffer>>
  /\ UNCHANGED othervars

BindFail ==
  /\ pc = "bind"
  /\ Finish(Err("Connection"))
  /\ events' = Append(events, "bind_err")
  /\ UNCHANGED <<op, oids, message, wire, response, buffer>>
  /\ UNCHANGED othervars

(***************************************************************************)
(* Build the message, rasn::ber::encode, socket.send_to(...).await:        *)
(* lines 106-129 / 155-179.                                                *)
(***************************************************************************)
EncodeFail ==
  /\ pc = "send"
  /\ message' = BuildMessage
  /\ Finish(Err("Serialization"))
  /\ events' = Append(events, "encode_err")
  /\ UNCHANGED <<op, oids, wire, response, buffer>>
  /\ UNCHANGED othervars

SendFail ==
  /\ pc = "send"
  /\ message' = BuildMessage
  /\ Finish(Err("Connection"))
  /\ events' = Append(events, "send_err")
  /\ UNCHANGED <<op, oids, wire, response, buffer>>
  /\ UNCHANGED othervars

SendOk ==
  /\ pc = "send"
  /\ message' = BuildMessage
  /\ wire' = Append(wire, BuildMessage)
  /\ pc' = "recv"
  /\ events' = Append(events, "send")
  /\ UNCHANGED <<op, oids, socket, inbox, response, result, buffer>>
  /\ UNCHANGED othervars

(***************************************************************************)
(* The network: some party puts a datagram into the call's socket.  The    *)
(* call receives once, so one waiting datagram is all it can ever see.     *)
(***************************************************************************)
Deliver ==
  /\ socket
  /\ inbox = <<>>
  /\ \E d \in Datagrams : inbox' = <<d>>
  /\ UNCHANGED <<pc, op, oids, socket, message, wire, response, result, buffer, events>>
  /\ UNCHANGED othervars

(***************************************************************************)
(* socket.recv_from(...).await, rasn::ber::decode, the map / filter /      *)
(* collect: lines 130-145 / 180-198.  recv_from completes when a datagram  *)
(* is in the socket, or with an io error.                                  *)
(***************************************************************************)
RecvFail ==
  /\ pc = "recv"
  /\ Finish(Err("Connection"))
  /\ events' = Append(events, "recv_err")
  /\ UNCHANGED <<op, oids, message, wire, response, buffer>>
  /\ UNCHANGED othervars

RecvMalformed ==
  /\ pc = "recv"
  /\ inbox # <<>>
  /\ ~DecodesIn(inbox[1], BufferSize)
  /\ buffer' = Received(inbox[1], BufferSize)
  /\ Finish(Err("Serialization"))
  /\ events' = events \o <<"recv", "decode_err">>
  /\ UNCHANGED <<op, oids, message, wire, response>>
  /\ UNCHANGED othervars

\* mutant of RecvResponse: the reply is read before the request has gone out
RecvResponse_unsent ==
  /\ pc \in {"send", "recv"}
  /\ inbox # <<>>
  /\ DecodesIn(inbox[1], BufferSize)
  /\ buffer' = Received(inbox[1], BufferSize)
  /\ response' = inbox[1]
  /\ Finish(Collect(inbox[1]))
  /\ events' = events \o <<"recv", "decode">>
  /\ UNCHANGED <<op, oids, message, wire>>
  /\ UNCHANGED othervars

\* mutant of RecvResponse: the call keeps its socket and goes on receiving,
\* adding each reply's bindings to what it has
RecvResponse_more ==
  /\ pc = "recv"
  /\ inbox # <<>>
  /\ DecodesIn(inbox[1], BufferSize)
  /\ buffer' = Received(inbox[1], BufferSize)
  /\ response' = inbox[1]
  /\ result' = Ok(result.bindings \o Collect(inbox[1]).bindings)
  /\ inbox' = <<>>
  /\ events' = events \o <<"recv", "decode">>
  /\ UNCHANGED <<pc, socket, op, oids, message, wire>>
  /\ UNCHANGED othervars

RecvResponse ==
  /\ pc = "recv"
  /\ inbox # <<>>
  /\ DecodesIn(inbox[1], BufferSize)
  /\ buffer' = Received(inbox[1], BufferSize)
  /\ response' = inbox[1]
  /\ Finish(Collect(inbox[1]))
  /\ events' = events \o <<"recv", "decode">>
  /\ UNCHANGED <<op, oids, message, wire>>
  /\ UNCHANGED othervars

\* the caller drops the future of a call that is waiting at an await: the
\* socket, a local of the call, is dropped with it
Cancel ==
  /\ pc \in {"bind", "send", "recv"}
  /\ Finish(Cancelled)
  /\ events' = Append(events, "cancel")
  /\ UNCHANGED <<op, oids, message, wire, response, buffer>>
  /\ UNCHANGED othervars

\* the handler is done with the result; the next request may come
Return ==
  /\ pc = "done"
  /\ pc' = "idle"
  /\ op' = "none"
  /\ oids' = <<>>
  /\ socket' = FALSE
  /\ message' = NoMessage
  /\ wire' = <<>>
  /\ inbox' = <<>>
  /\ response' = NoResponse
  /\ result' = NoResult
  /\ buffer' = NoBuffer
  /\ events' = <<>>
  /\ UNCHANGED othervars

CallStep ==
  \/ BindOk
  \/ SendOk
  \/ RecvMalformed
  \/ RecvResponse

Next ==
  \/ \E l \in SeqsUpTo(RequestOids, MaxOids) : CallGet(l)
  \/ \E oid \in Roots : CallGetBulk(oid)
  \/ BindOk
  \/ BindFail
  \/ EncodeFail
  \/ SendFail
  \/ SendOk
  \/ Deliver
  \/ RecvFail
  \/ RecvMalformed
  \/ RecvResponse
  \/ Cancel
  \/ Return

Spec == Init /\ [][Next]_vars

\* the runtime resumes a call whose await has completed
FairSpec == Spec /\ WF_vars(CallStep)

(***************************************************************************)
(* SpecOid: the functions on object identifiers, applied to bounded        *)
(* inputs.  A text comes from the JSON body of a request (http_api.rs,     *)
(* Deserialize for ObjectIdentifier); an identifier comes from from_str or *)
(* from a decoded reply, and is never empty.                               *)
(***************************************************************************)
Alphabet == {"0", "1", "3", ".", "+", "-"}

\* texts around u32::MAX, beyond the enumerated length
LongTexts ==
  { <<"4", "2", "9", "4", "9", "6", "7", "2", "9", "6">>,
    <<"1", ".", "4", "2", "9", "4", "9", "6", "7", "2", "9", "6">>,
    <<"2", "1", "4", "7", "4", "8", "3", "6", "4", "7">>,
    <<"1", ".", "0", "0", "0", "0", "0", "0", "0", "0", "0", "0", "3">> }

Texts == SeqsUpTo(Alphabet, MaxTextLen) \cup LongTexts

SubIds == {1, 3, 30}

OidInputs == SeqsUpTo(SubIds, MaxOidLen) \ {<<>>}

NotParsed == [kind |-> "None", oid |-> <<>>]

InitOid ==
  /\ XIdle
  /\ ConvIdle
  /\ ConcIdle
  /\ parsed = NotParsed
  /\ rendered = <<>>
  /\ answer = FALSE
  /\ \/ /\ ostep = "text"
        /\ text \in Texts
        /\ selfOid = <<>>
        /\ prefixOid = <<>>
     \/ /\ ostep = "oids"
        /\ text = <<>>
        /\ selfOid \in OidInputs
        /\ prefixOid \in OidInputs

\* http_api.rs line 77: oid_text.parse()
Parse ==
  /\ ostep = "text"
  /\ parsed' = from_str(text)
  /\ ostep' = "parsed"
  /\ UNCHANGED <<text, rendered, selfOid, prefixOid, answer>>
  /\ UNCHANGED <<xvars, cvvars, ccvars>>

\* http_api.rs line 67: self.to_string(), of an identifier from_str returned
to_string ==
  /\ ostep = "parsed"
  /\ parsed.kind = "Ok"
  /\ rendered' = fmt(parsed.oid)
  /\ ostep' = "rendered"
  /\ UNCHANGED <<text, parsed, selfOid, prefixOid, answer>>
  /\ UNCHANGED <<xvars, cvvars, ccvars>>

\* to_string() of an identifier, and from_str of that text
RenderParse ==
  /\ ostep = "oids"
  /\ rendered' = fmt(selfOid)
  /\ parsed' = from_str(fmt(selfOid))
  /\ ostep' = "reparsed"
  /\ UNCHANGED <<text, selfOid, prefixOid, answer>>
  /\ UNCHANGED <<xvars, cvvars, ccvars>>

\* snmp.rs line 196: binding.object_id.starts_with(oid)
StartsWith ==
  /\ ostep = "oids"
  /\ answer' = starts_with(selfOid, prefixOid)
  /\ ostep' = "answered"
  /\ UNCHANGED <<text, parsed, rendered, selfOid, prefixOid>>
  /\ UNCHANGED <<xvars, cvvars, ccvars>>

NextOid ==
  \/ Parse
  \/ to_string
  \/ RenderParse
  \/ StartsWith

SpecOid == InitOid /\ [][NextOid]_vars

(***************************************************************************)
(* SpecConv: convert (snmp.rs) and Serialize for ObjectValue (http_api.rs) *)
(* applied to bounded wire values: what a reply's binding holds is         *)
(* converted, and the converted value is written into the HTTP reply.      *)
(***************************************************************************)
\* rasn_smi::v2::SimpleSyntax and ApplicationSyntax: the syntaxes of a value
SimpleSyntaxes == {"Integer", "String", "ObjectId"}
ApplicationSyntaxes ==
  {"Address", "Counter", "Ticks", "Arbitrary", "BigCounter", "Unsigned"}
Syntaxes == SimpleSyntaxes \cup ApplicationSyntaxes

ClassOf(syntax) ==
  IF syntax \in SimpleSyntaxes THEN "Simple" ELSE "ApplicationWide"

\* the variants of enum ObjectValue
Variants ==
  {"Integer", "OctetString", "ObjectIdentifier", "Integer32", "IpAddress",
   "Counter32", "Unsigned32", "TimeTicks", "Opaque", "Counter64"}

\* bytes: an ASCII letter, the two bytes of a two-byte character (U+00E9),
\* the first byte of a three-byte one, and a byte no UTF-8 text holds
Bytes == {65, 195, 169, 226, 255}
ByteStrings == SeqsUpTo(Bytes, MaxBytes)
Octets == {0, 10, 255}
Numbers == {0, 7, 65536}

\* the payloads of each syntax
Payloads(syntax) ==
  CASE syntax = "Integer" -> {-3, 0, 5}
    [] syntax = "String" -> ByteStrings
    [] syntax = "ObjectId" -> OidInputs
    [] syntax = "Address" -> [1..4 -> Octets]
    [] syntax = "Arbitrary" -> ByteStrings
    [] syntax \in {"Counter", "Ticks", "BigCounter", "Unsigned"} -> Numbers

\* b is a continuation byte within lo..hi
Cont(s, i, lo, hi) == i <= Len(s) /\ s[i] >= lo /\ s[i] <= hi

RECURSIVE ValidUtf8(_, _)
\* String::from_utf8 accepts the bytes of s from position i on
ValidUtf8(s, i) ==
  IF i > Len(s) THEN TRUE
  ELSE LET b == s[i] IN
    IF b < 128 THEN ValidUtf8(s, i + 1)
    ELSE IF b >= 194 /\ b <= 223
      THEN Cont(s, i + 1, 128, 191) /\ ValidUtf8(s, i + 2)
    ELSE IF b >= 224 /\ b <= 239
      THEN /\ Cont(s, i + 1, IF b = 224 THEN 160 ELSE 128,
                               IF b = 237 THEN 159 ELSE 191)
           /\ Cont(s, i + 2, 128, 191)
           /\ ValidUtf8(s, i + 3)
    ELSE IF b >= 240 /\ b <= 244
      THEN /\ Cont(s, i + 1, IF b = 240 THEN 144 ELSE 128,
                               IF b = 244 THEN 143 ELSE 191)
           /\ Cont(s, i + 2, 128, 191)
           /\ Cont(s, i + 3, 128, 191)
           /\ ValidUtf8(s, i + 4)
    ELSE FALSE

\* Ipv4Addr's to_string: the four octets in decimal, dots between
ipv4_to_string(a) ==
  u32_to_string(a[1]) \o <<".">> \o u32_to_string(a[2]) \o <<".">>
    \o u32_to_string(a[3]) \o <<".">> \o u32_to_string(a[4])

\* what serialize_struct ... end() wrote: the fields in order, and the values
\* of "syntax" and "value" if written
Json(fields, syntax, type, value) ==
  [kind |-> "Ok", fields |-> fields, syntax |-> syntax, type |-> type,
   value |-> value]

\* the unwrap() of String::from_utf8 on bytes that are no UTF-8 text
JsonPanic ==
  [kind |-> "Panic", fields |-> <<>>, syntax |-> "None", type |-> "None",
   value |-> 0]

\* Serialize for ObjectValue: one arm per variant
serialize(v) ==
  CASE v.tag = "Integer" -> Json(<<>>, "None", "None", 0)
    [] v.tag = "OctetString" ->
         IF ValidUtf8(v.payload, 1)
         THEN Json(<<"syntax", "value">>, "OctetString", "text", v.payload)
         ELSE JsonPanic
    [] v.tag = "ObjectIdentifier" ->
         Json(<<"syntax", "value">>, "ObjectIdentifier", "text", fmt(v.payload))
    [] v.tag = "IpAddress" ->
         Json(<<"syntax", "value">>, "IpAddress", "text", ipv4_to_string(v.payload))
    [] v.tag = "Opaque" ->
         Json(<<"syntax", "value">>, "Opaque", "array", v.payload)
    [] v.tag \in {"Integer32", "Counter32", "Unsigned32", "TimeTicks", "Counter64"} ->
         Json(<<"syntax", "value">>, v.tag, "number", v.payload)

InitConv ==
  /\ XIdle
  /\ OidIdle
  /\ ostep = "off"
  /\ ConcIdle
  /\ oval = NoValue
  /\ json = NoJson
  /\ vstep = "wire"
  /\ \/ \E syntax \in Syntaxes : \E p \in Payloads(syntax) :
          wval = WireValue(ClassOf(syntax), syntax, p)
     \/ \E m \in Markers : wval = Marker(m)

\* snmp.rs lines 141 / 193: value: convert(&binding.value)
Convert ==
  /\ vstep = "wire"
  /\ oval' = convert(wval)
  /\ vstep' = IF convert(wval).tag = Todo.tag THEN "panicked" ELSE "converted"
  /\ UNCHANGED <<wval, json>>
  /\ UNCHANGED <<xvars, ovars, ccvars>>

\* http_api.rs line 44: warp::reply::json(&response), of a converted value
Serialize ==
  /\ vstep = "converted"
  /\ json' = serialize(oval)
  /\ vstep' = "serialized"
  /\ UNCHANGED <<wval, oval>>
  /\ UNCHANGED <<xvars, ovars, ccvars>>

NextConv ==
  \/ Convert
  \/ Serialize

SpecConv == InitConv /\ [][NextConv]_vars

(***************************************************************************)
(* SpecConc: several get / get_bulk calls in progress at once, as warp     *)
(* runs one handle_snmp_request per HTTP request.  Each call has its       *)
(* locals (calls[c]); the sockets are the operating system's (open,        *)
(* sockbuf).  A datagram in a socket is kept with the call that owned      *)
(* the socket when it arrived.                                             *)
(***************************************************************************)
ConcRequests ==
  {[op |-> "get", oids |-> <<<<1, 3, 1>>>>], [op |-> "get_bulk", oids |-> <<<<1, 3>>>>]}

ConcDatagrams ==
  {Garbage,
   Response(1, 0, 0, <<VarBind(<<1, 4>>, WireValue("ApplicationWide", "Counter", 7)),
                       VarBind(<<1, 3, 1>>, WireValue("Simple", "Integer", 5))>>),
   Response(1, 0, 0, <<VarBind(<<1, 3, 1>>, Marker("EndOfMibView"))>>)}

InitConc ==
  /\ XIdle
  /\ OidIdle
  /\ ostep = "off"
  /\ ConvIdle
  /\ ConcIdle

\* mutant of FreePorts: a socket shared by the calls (one bound once and kept)
FreePorts_any == Ports

\* bind("[::]:0"): the system picks a port no open socket has
FreePorts == Ports \ open

\* mutant of Dropped: the socket outlives the call
Dropped_leak(p) == open

\* the socket, a local of the call, is dropped when the call ends
Dropped(p) == open \ {p}

\* the call c has ended with r: its socket is closed, and what waited in it is gone
CFinish(c, r, e) ==
  LET p == calls[c].port IN
    /\ calls' = [calls EXCEPT ![c] =
                   [@ EXCEPT !.pc = "done", !.result = r, !.port = 0,
                             !.events = Append(@, e)]]
    /\ open' = Dropped(p)
    /\ sockbuf' = [q \in Ports |-> IF q = p THEN <<>> ELSE sockbuf[q]]

CStart(c, rq) ==
  /\ calls[c].pc = "idle"
  /\ calls' = [calls EXCEPT ![c] =
                 [IdleCall EXCEPT !.pc = "bind", !.op = rq.op, !.oids = rq.oids]]
  /\ UNCHANGED <<open, sockbuf>>
  /\ UNCHANGED <<xvars, ovars, cvvars>>

CBindOk(c) ==
  /\ calls[c].pc = "bind"
  /\ \E p \in FreePorts :
       /\ calls' = [calls EXCEPT ![c] =
                      [@ EXCEPT !.pc = "send", !.port = p, !.opened = @ + 1,
                                !.events = Append(@, "bind")]]
       /\ open' = open \cup {p}
  /\ UNCHANGED sockbuf
  /\ UNCHANGED <<xvars, ovars, cvvars>>

\* the errors a call can end with at each await or fallible step
ErrorsAt(at) ==
  IF at = "send" THEN {"Serialization", "Connection"} ELSE {"Connection"}

CFail(c) ==
  /\ calls[c].pc \in {"bind", "send", "recv"}
  /\ \E e \in ErrorsAt(calls[c].pc) : CFinish(c, Err(e), "end")
  /\ UNCHANGED <<xvars, ovars, cvvars>>

CSendOk(c) ==
  /\ calls[c].pc = "send"
  /\ calls' = [calls EXCEPT ![c] =
                 [@ EXCEPT !.pc = "recv",
                           !.message = BuildMessageOf(calls[c].op, calls[c].oids),
                           !.events = Append(@, "send")]]
  /\ UNCHANGED <<open, sockbuf>>
  /\ UNCHANGED <<xvars, ovars, cvvars>>

\* a datagram arrives at an open socket
CDeliver(p) ==
  /\ p \in open
  /\ sockbuf[p] = <<>>
  /\ \E d \in ConcDatagrams : \E c \in Calls :
       /\ calls[c].port = p
       /\ sockbuf' = [sockbuf EXCEPT ![p] = <<[to |-> c, data |-> d]>>]
       /\ calls' = [calls EXCEPT ![c].delivered = Append(@, d)]
  /\ UNCHANGED open
  /\ UNCHANGED <<xvars, ovars, cvvars>>

\* recv_from on the call's socket, decode, collect: lines 130-145 / 180-198
CRecv(c) ==
  LET call == calls[c] IN
    /\ call.pc = "recv"
    /\ sockbuf[call.port] # <<>>
    /\ LET m == sockbuf[call.port][1]
           r == IF DecodesIn(m.data, BufferSizeOf(call.op))
                THEN CollectOf(call.op, call.oids, m.data)
                ELSE Err("Serialization")
       IN /\ calls' = [calls EXCEPT ![c] =
                         [@ EXCEPT !.pc = "done", !.result = r, !.port = 0,
                                   !.got = <<m>>,
                                   !.events = @ \o <<"recv", "end">>]]
          /\ open' = Dropped(call.port)
          /\ sockbuf' = [q \in Ports |-> IF q = call.port THEN <<>> ELSE sockbuf[q]]
    /\ UNCHANGED <<xvars, ovars, cvvars>>

\* the caller drops the future of the call c at one of its awaits
CCancel(c) ==
  /\ calls[c].pc \in {"bind", "send", "recv"}
  /\ CFinish(c, Cancelled, "cancel")
  /\ UNCHANGED <<xvars, ovars, cvvars>>

\* the handler is done with the result of c
CReturn(c) ==
  /\ calls[c].pc = "done"
  /\ calls' = [calls EXCEPT ![c] = IdleCall]
  /\ UNCHANGED <<open, sockbuf>>
  /\ UNCHANGED <<xvars, ovars, cvvars>>

NextConc ==
  \/ \E c \in Calls : \E rq \in ConcRequests : CStart(c, rq)
  \/ \E c \in Calls : CBindOk(c)
  \/ \E c \in Calls : CFail(c)
  \/ \E c \in Calls : CSendOk(c)
  \/ \E p \in Ports : CDeliver(p)
  \/ \E c \in Calls : CRecv(c)
  \/ \E c \in Calls : CCancel(c)
  \/ \E c \in Calls : CReturn(c)

SpecConc == InitConc /\ [][NextConc]_vars

(***************************************************************************)
(* The claims.                                                             *)
(***************************************************************************)

\* b is a literal prefix of a: a is b followed by some more sub-identifiers
IsLiteralPrefix(b, a) ==
  \E k \in 0..Len(a) : Len(b) = k /\ \A i \in 1..k : a[i] = b[i]

IsTextPrefix(t, u) ==
  Len(t) <= Len(u) /\ \A i \in 1..Len(t) : u[i] = t[i]

BulkDone == pc = "done" /\ op = "get_bulk" /\ result.kind = "Ok"
GetDone == pc = "done" /\ op = "get" /\ result.kind = "Ok"

\* C1: get_bulk never returns a binding whose identifier does not have the
\* root as a prefix, and never more bindings than the agent's reply holds.
C1_BulkUnderRoot ==
  op = "get_bulk" =>
    /\ \A i \in 1..Len(result.bindings) :
         IsLiteralPrefix(oids[1], result.bindings[i].object_id)
    /\ Len(result.bindings) <= Len(response.variable_bindings)

\* C1 witness: a get_bulk returned some, but not all, bindings of the reply.
C1_Witness ==
  /\ BulkDone
  /\ Len(result.bindings) >= 1
  /\ Len(result.bindings) < Len(response.variable_bindings)

RECURSIVE LeadingRun(_, _)
\* the bindings before the first that is outside the root or is end-of-MIB-view
LeadingRun(bindings, root) ==
  IF bindings = <<>> THEN <<>>
  ELSE IF \/ ~IsLiteralPrefix(root, Head(bindings).name)
          \/ Head(bindings).value.kind = "EndOfMibView"
       THEN <<>>
       ELSE <<Head(bindings)>> \o LeadingRun(Tail(bindings), root)

\* C2 (as claimed; the code filters instead): get_bulk returns exactly the
\* longest leading run of the reply's bindings that lie under the root, so no
\* binding after the first out-of-scope one is returned.
C2_BulkLeadingRun ==
  BulkDone =>
    LET run == LeadingRun(response.variable_bindings, oids[1]) IN
      /\ Len(result.bindings) = Len(run)
      /\ \A i \in 1..Len(run) : result.bindings[i].object_id = run[i].name

\* C3 (as claimed; the code never compares ids): a reply whose request id
\* differs from the request's is rejected with ProtocolError.
C3_MismatchedIdRejected ==
  (pc = "done" /\ response.decodes /\ response.request_id # message.request_id)
    => (result.kind = "Err" /\ result.error = "ProtocolError")

\* C4 (as claimed; the code never reads error-status): a reply with a non-zero
\* error-status makes the call fail with ProtocolError, never Ok, never a
\* transport failure.
C4_ErrorStatusRejected ==
  (/\ pc = "done"
   /\ response.decodes
   /\ response.request_id = message.request_id
   /\ response.error_status # 0)
    => (result.kind = "Err" /\ result.error = "ProtocolError")

\* C5 (as claimed; the code has no timeout), under FairSpec: a call waiting
\* for a reply that does not arrive stops waiting: it ends with Timeout (or
\* with the transport's own failure), unless a reply arrives after all.
C5_NoReplyTimesOut ==
  (pc = "recv" /\ inbox = <<>>)
    ~> (\/ inbox # <<>>
        \/ (pc = "done" /\ result.kind = "Err"
              /\ result.error \in {"Timeout", "Connection"}))

HasMarker(resp) ==
  \E i \in 1..Len(resp.variable_bindings) :
    resp.variable_bindings[i].value.kind \in Markers

\* C6 (as claimed; convert is todo!() for the markers): a reply holding a
\* marker never makes the call panic, and the caller of get sees a
\* BoundaryCondition outcome for it.
C6_MarkerSurfaces ==
  (pc = "done" /\ response.decodes /\ HasMarker(response)) =>
    /\ result.kind # "Panic"
    /\ op = "get" =>
         \/ (result.kind = "Err" /\ result.error = "BoundaryCondition")
         \/ \E i \in 1..Len(result.bindings) :
              result.bindings[i].value.tag = "BoundaryCondition"

\* a segment that is no non-negative integer a sub-identifier can hold (a
\* leading "+" is let through here: the claim does not settle it)
BadSegment(seg) ==
  LET ds == IF Len(seg) > 1 /\ seg[1] = "+" THEN Tail(seg) ELSE seg IN
    \/ ds = <<>>
    \/ \E i \in 1..Len(ds) : ds[i] \notin Digits
    \/ OverflowsU32(ds)

Malformed(t) ==
  LET segs == split(t, <<>>) IN \E i \in 1..Len(segs) : BadSegment(segs[i])

\* C7 (as claimed; from_str unwraps): parsing a text with a bad segment fails
\* with the recoverable MalformedIdentifier, parsing never panics, and a
\* parsed identifier is never empty.
C7_MalformedIsRecoverable ==
  ostep = "parsed" =>
    /\ parsed.kind # "Panic"
    /\ Malformed(text) => (parsed.kind = "Err")
    /\ parsed.kind = "Ok" => parsed.oid # <<>>

\* C8 (as claimed; u32 parsing accepts "+" and leading zeros): the rendering
\* of a parsed text is that text, and parsing the rendering of an identifier
\* gives the identifier back.
C8_RoundTrip ==
  /\ ostep = "rendered" => rendered = text
  /\ ostep = "reparsed" => (parsed.kind = "Ok" /\ parsed.oid = selfOid)

\* C9: A.starts_with(B) iff B's sub-identifiers are a literal prefix of A's;
\* so A.starts_with(A), and never when B is longer than A.
C9_StartsWithIsPrefix ==
  ostep = "answered" =>
    /\ answer <=> IsLiteralPrefix(prefixOid, selfOid)
    /\ selfOid = prefixOid => answer
    /\ Len(prefixOid) > Len(selfOid) => ~answer

\* C9 witness: 1.3 against 1.30 and the like: a prefix as text, not as
\* sub-identifiers, and starts_with said no.
C9_Witness ==
  /\ ostep = "answered"
  /\ ~answer
  /\ Len(prefixOid) <= Len(selfOid)
  /\ IsTextPrefix(fmt(prefixOid), fmt(selfOid))

\* the ObjectValue variant of each wire syntax
VariantOf(syntax) ==
  CASE syntax = "Integer" -> "Integer"
    [] syntax = "String" -> "OctetString"
    [] syntax = "ObjectId" -> "ObjectIdentifier"
    [] syntax = "Address" -> "IpAddress"
    [] syntax = "Counter" -> "Counter32"
    [] syntax = "Ticks" -> "TimeTicks"
    [] syntax = "Arbitrary" -> "Opaque"
    [] syntax = "BigCounter" -> "Counter64"
    [] syntax = "Unsigned" -> "Unsigned32"

\* C10: get sends one GetRequest with one binding per requested identifier, in
\* request order, each Unspecified; a successful get returns one binding per
\* binding of the reply, in the reply's order, with the reply's identifier and
\* the converted value.
C10_GetRequestAndResult ==
  /\ (op = "get" /\ message # NoMessage) =>
       /\ message.pdu = "GetRequest"
       /\ Len(message.variable_bindings) = Len(oids)
       /\ \A i \in 1..Len(oids) :
            /\ message.variable_bindings[i].name = oids[i]
            /\ message.variable_bindings[i].value.kind = "Unspecified"
       /\ Len(wire) <= 1
       /\ \A i \in 1..Len(wire) : wire[i] = message
  /\ GetDone =>
       /\ Len(wire) = 1
       /\ Len(result.bindings) = Len(response.variable_bindings)
       /\ \A i \in 1..Len(result.bindings) :
            LET got == result.bindings[i]
                sent == response.variable_bindings[i]
            IN /\ got.object_id = sent.name
               /\ got.value.tag = VariantOf(sent.value.syntax)
               /\ got.value.payload = sent.value.payload

\* C10 witness: two identifiers asked, the reply lists them the other way
\* round with different values, and get returned the reply's order.
C10_Witness ==
  /\ GetDone
  /\ Len(oids) = 2
  /\ oids[1] # oids[2]
  /\ Len(result.bindings) = 2
  /\ result.bindings[1].object_id = oids[2]
  /\ result.bindings[2].object_id = oids[1]
  /\ result.bindings[1].value # result.bindings[2].value

(***************************************************************************)
(* Claims on the order and the outcome of one call's steps, read from the  *)
(* history of the call (events) and from what it holds at each step.       *)
(***************************************************************************)
Has(e) == \E i \in 1..Len(events) : events[i] = e

Count(e) == Cardinality({i \in 1..Len(events) : events[i] = e})

\* C15: within one call the send precedes any receive: nothing is consumed
\* from the socket before the request has gone out, and a call whose bind,
\* encode or send failed returns that error and has received nothing.
C15_SendPrecedesReceive ==
  /\ \A i \in 1..Len(events) :
       events[i] = "recv" => \E j \in 1..(i - 1) : events[j] = "send"
  /\ (buffer # NoBuffer \/ response # NoResponse) => Len(wire) = 1
  /\ (Has("bind_err") \/ Has("send_err")) =>
       (pc = "done" /\ result = Err("Connection"))
  /\ Has("encode_err") => (pc = "done" /\ result = Err("Serialization"))
  /\ (Has("bind_err") \/ Has("encode_err") \/ Has("send_err")) =>
       (~Has("recv") /\ buffer = NoBuffer /\ response = NoResponse /\ wire = <<>>)

\* C15 witness: a call that bound, sent, received and decoded, in this order,
\* and returned the reply's bindings.
C15_Witness ==
  /\ pc = "done"
  /\ events = <<"bind", "send", "recv", "decode">>
  /\ result.kind = "Ok"
  /\ Len(result.bindings) >= 1
  /\ Len(wire) = 1

Failures == {"bind_err", "encode_err", "send_err", "recv_err", "decode_err"}

\* the error each failure is reported as
ErrorOf(e) ==
  IF e \in {"encode_err", "decode_err"} THEN Err("Serialization")
  ELSE Err("Connection")

\* a reply that is a protocol failure: an id that is not the request's, or a
\* non-zero error-status
ProtocolFailure(resp) ==
  resp.decodes /\ (resp.request_id # message.request_id \/ resp.error_status # 0)

\* the part of C16 on retries: a failure is the last thing a call does and is
\* what the call returns, and no call sends or receives twice
NoRetry ==
  /\ \A i \in 1..Len(events) :
       events[i] \in Failures =>
         (i = Len(events) /\ pc = "done" /\ result = ErrorOf(events[i]))
  /\ Count("send") <= 1
  /\ Count("recv") <= 1
  /\ Len(wire) <= 1

\* C16 (as claimed; the code takes a protocol failure for a reply): after a
\* bind, send, receive, decode or protocol failure the call does nothing more
\* and returns that failure; nothing is retried beyond the maximum.
C16_OnlyTimeoutRetried ==
  /\ NoRetry
  /\ (pc = "done" /\ ProtocolFailure(response)) => result.kind = "Err"

\* C17 (as claimed; the code neither compares lengths nor slices the buffer):
\* a reply longer than the receive buffer makes the call fail with
\* ResponseTooLarge, and the decoder reads no byte beyond those received.
C17_TruncationDetected ==
  buffer # NoBuffer =>
    /\ buffer.datagram_len > buffer.size =>
         (pc = "done" /\ result = Err("ResponseTooLarge"))
    /\ buffer.read <= buffer.byte_count

\* what a caller or a configuration may want as max-repetitions
CallerRepetitions == {10, 20}

\* C18 (as claimed; get_bulk takes no max-repetitions and writes 20): every
\* GetBulkRequest has non-repeaters 0, one binding (the caller's root, with
\* Unspecified), and as max-repetitions whatever positive value the caller or
\* configuration wants.
C18_BulkRequestShape ==
  (op = "get_bulk" /\ message # NoMessage) =>
    /\ message.pdu = "GetBulkRequest"
    /\ message.non_repeaters = 0
    /\ message.variable_bindings = <<VarBind(oids[1], Unspecified)>>
    /\ \A n \in CallerRepetitions : n > 0 /\ message.max_repetitions = n

\* C19: a call that ends without Ok hands out no bindings; a call that ends
\* with Ok hands out what the collect makes of the one reply it received; a
\* call never receives more often than it sent, and once it has received it
\* is over, its socket gone.
C19_AllOrNothing ==
  /\ result.kind # "Ok" => result.bindings = <<>>
  /\ pc = "done" => result.kind \in {"Ok", "Err", "Panic", "Cancelled"}
  /\ (pc = "done" /\ result.kind = "Ok") =>
       /\ response.decodes
       /\ result = Collect(response)
       /\ Count("recv") = 1
       /\ \A i \in 1..Len(result.bindings) :
            \E j \in 1..Len(response.variable_bindings) :
              result.bindings[i].object_id = response.variable_bindings[j].name
  /\ Count("recv") <= Count("send")
  /\ Has("recv") => (pc = "done" /\ ~socket /\ inbox = <<>>)
  /\ pc # "done" => result = NoResult

\* C19 witness: a get_bulk that left out a binding of its reply and returned
\* the others, all from that reply, after one send and one receive.
C19_Witness ==
  /\ BulkDone
  /\ Count("send") = 1
  /\ Count("recv") = 1
  /\ Len(result.bindings) = 2
  /\ Len(response.variable_bindings) = 3

(***************************************************************************)
(* Claims on convert and on the serialization of a value.                  *)
(***************************************************************************)
\* convert gives the wire value w the object value v
ConvertsTo(w, v) ==
  LET c == convert(w) IN c.tag = v.tag /\ c.payload = v.payload

\* the part of C13 that is about the values there are on the wire: a value is
\* converted to the variant of its syntax with its payload, and to nothing
\* that another wire value is converted to
ConvertKeepsValues ==
  (vstep \in {"converted", "serialized"}) =>
    /\ oval.tag = VariantOf(wval.syntax)
    /\ oval.tag \in Variants
    /\ oval.payload = wval.payload
    /\ \A syntax \in Syntaxes : \A p \in Payloads(syntax) :
         ConvertsTo(WireValue(ClassOf(syntax), syntax, p), oval)
           => (syntax = wval.syntax /\ p = wval.payload)

\* C13 (as claimed; no wire value is converted to Integer32): convert maps
\* each wire value to one variant with the same payload, distinct wire values
\* to distinct object values, and every one of the ten variants is what some
\* wire value is converted to.
C13_ConvertOntoTen ==
  /\ ConvertKeepsValues
  /\ (vstep \in {"converted", "serialized"}) =>
       \A variant \in Variants :
         \E syntax \in Syntaxes : \E p \in Payloads(syntax) :
           convert(WireValue(ClassOf(syntax), syntax, p)).tag = variant

\* C14 (as claimed; the Integer arm writes nothing and the OctetString arm
\* unwraps from_utf8): the serialization of any value ends, with a "syntax"
\* field naming the variant and a "value" field.
C14_SerializedWithBothFields ==
  vstep = "serialized" =>
    /\ json.kind = "Ok"
    /\ json.fields = <<"syntax", "value">>
    /\ json.syntax = oval.tag

(***************************************************************************)
(* Claims on calls in progress at once.                                    *)
(***************************************************************************)
\* the result of a call of op o for the identifiers l that ran alone and had
\* the datagrams ds delivered to its socket: it receives the first
AloneResult(o, l, ds) ==
  IF DecodesIn(ds[1], BufferSizeOf(o)) THEN CollectOf(o, l, ds[1])
  ELSE Err("Serialization")

HasSocket(c) == calls[c].pc \in {"send", "recv"}

\* C11: each call has a socket of its own; what a call consumes is what was
\* delivered to its socket and to no other call's; and its result is the
\* result of the same call alone with the replies delivered to its socket.
C11_CallsIndependent ==
  /\ \A c \in Calls : \A d \in Calls \ {c} :
       (HasSocket(c) /\ HasSocket(d)) => calls[c].port # calls[d].port
  /\ \A p \in Ports : sockbuf[p] # <<>> =>
       (HasSocket(sockbuf[p][1].to) /\ calls[sockbuf[p][1].to].port = p)
  /\ \A c \in Calls : calls[c].got # <<>> =>
       /\ calls[c].got[1].to = c
       /\ calls[c].delivered # <<>>
       /\ calls[c].got[1].data = calls[c].delivered[1]
       /\ calls[c].result =
            AloneResult(calls[c].op, calls[c].oids, calls[c].delivered)
  /\ \A c \in Calls : (calls[c].pc = "done" /\ calls[c].got = <<>>) =>
       calls[c].result.kind \in {"Err", "Cancelled"}

\* C11 witness: a get has returned the two bindings of the reply delivered
\* to its socket, while a different reply waits, unconsumed, in the socket of
\* a get_bulk in progress.
C11_Witness ==
  /\ calls[1].pc = "done" /\ calls[1].op = "get" /\ calls[1].result.kind = "Ok"
  /\ calls[2].pc = "recv" /\ calls[2].op = "get_bulk"
  /\ sockbuf[calls[2].port] # <<>>
  /\ calls[1].got # <<>>
  /\ calls[1].got[1].data # sockbuf[calls[2].port][1].data
  /\ Len(calls[1].result.bindings) = 2

Outstanding(c) == calls[c].pc = "recv"

\* C12 (as claimed; the code writes request_id: 1 into every request): two
\* requests outstanding at once carry different request ids.
C12_DistinctRequestIds ==
  \A c \in Calls : \A d \in Calls \ {c} :
    (Outstanding(c) /\ Outstanding(d)) =>
      calls[c].message.request_id # calls[d].message.request_id

InFlight(c) == calls[c].pc \in {"bind", "send", "recv"}

Ended(c) == calls[c].pc = "done"

\* nothing follows the end of a call in its history
NothingAfterEnd(c) ==
  \A i \in 1..Len(calls[c].events) :
    calls[c].events[i] \in {"end", "cancel"} =>
      (i = Len(calls[c].events) /\ Ended(c))

\* C20 (as claimed; a call waiting for its bind, or whose bind failed, has
\* no socket): each call opens exactly one socket, there are as many open
\* sockets as calls in flight, and an ended call consumes nothing.
C20_OneSocketPerCall ==
  /\ \A c \in Calls : Ended(c) => calls[c].opened = 1
  /\ Cardinality(open) = Cardinality({c \in Calls : InFlight(c)})
  /\ \A c \in Calls : NothingAfterEnd(c)

\* C20 as amended: a call opens at most one socket, and one once its bind
\* has succeeded; the open sockets are those of the calls in flight past
\* their bind, one each; the socket is closed when the call ends, however it
\* ends, with what waited in it; and an ended call consumes nothing.
C20_SocketHeldWhileBound ==
  /\ \A c \in Calls :
       /\ calls[c].opened <= 1
       /\ HasSocket(c) => (calls[c].opened = 1 /\ calls[c].port \in open)
       /\ ~HasSocket(c) => calls[c].port = 0
       /\ Ended(c) =>
            calls[c].opened = (IF calls[c].events[1] = "bind" THEN 1 ELSE 0)
  /\ open = {calls[c].port : c \in {d \in Calls : HasSocket(d)}}
  /\ Cardinality(open) = Cardinality({c \in Calls : HasSocket(c)})
  /\ \A p \in Ports : sockbuf[p] # <<>> => p \in open
  /\ \A c \in Calls : NothingAfterEnd(c)
  /\ \A c \in Calls : calls[c].got # <<>> => Ended(c)

\* C20 witness: a call was cancelled while a reply waited in its socket: the
\* reply was not consumed, the socket is closed, and the other call's socket
\* is the only one open.
C20_Witness ==
  /\ Ended(1)
  /\ calls[1].result = Cancelled
  /\ calls[1].delivered # <<>>
  /\ calls[1].got = <<>>
  /\ calls[2].pc = "recv"
  /\ open = {calls[2].port}

====
